---- MODULE Spec2Model ----
(***************************************************************************)
(* Model of src/bot.py: the ChatData ledger (users, logs, expenditure,     *)
(* shared_expenditure), its methods, and the settlement computed by        *)
(* resolve_expenses.                                                       *)
(*                                                                         *)
(* Python values are modelled as follows.                                  *)
(*  - float: <<"fin", n>> | <<"nan", 0>> | <<"inf", 1>> | <<"inf", -1>>.   *)
(*    Finite amounts are whole numbers that are multiples of Unit, the     *)
(*    least common multiple of every divisor the code can use, so every    *)
(*    division of the model is exact, as it is in IEEE doubles for these   *)
(*    values.                                                              *)
(*  - dict: a sequence of [k |-> key, v |-> value] in insertion order.     *)
(*  - frozenset: a duplicate-free sequence, the order in which the set     *)
(*    iterates; two frozensets are equal when they have the same elements. *)
(*  - Optional: <<>> is None, <<x>> is the value x.                        *)
(***************************************************************************)
EXTENDS Integers, Sequences, FiniteSets, TLC

\* users, logs, expenditure, shared_expenditure: the fields of the ChatData of
\* one chat, by value. heap, chat_data: the objects of the application and the
\* ChatData of each chat, by reference (used when several chats are served).
VARIABLES users, logs, expenditure, shared_expenditure, out, calls, heap, chat_data

vars == <<users, logs, expenditure, shared_expenditure, out, calls, heap, chat_data>>

(* ------------------------------ bounds --------------------------------- *)

\* Number of mutating ChatData calls (or commands) in one behaviour.
MaxCalls == 3

(* ------------------------------ inputs --------------------------------- *)

Roster == <<"A", "B", "C", "D">>

Names == {Roster[i] : i \in DOMAIN Roster}

\* the handles and the words of the chat commands, as Python str: sequences
\* of characters
HandleA == <<"@", "a">>
HandleB == <<"@", "b">>
BareA == <<"a">>

Handles == {HandleA, HandleB}

\* every key a command can put in expenditure: a character of an /include
\* argument string (a str of length 1), a payer of /add, or the empty payer
CommandKeys ==
  {<<"@">>, <<"a">>, <<"b">>, <<" ">>} \cup Handles \cup {<<>>}

RECURSIVE Gcd(_, _)
Gcd(a, b) == IF b = 0 THEN a ELSE Gcd(b, a % b)

RECURSIVE LcmUpTo(_)
LcmUpTo(n) == IF n <= 1 THEN 1 ELSE (LcmUpTo(n - 1) * n) \div Gcd(LcmUpTo(n - 1), n)

\* No divisor of the code exceeds this: len(expenditure) (line 52) is at most
\* the number of keys, len(debtors) + 1 (line 71) at most one more.
MaxDivisor == Cardinality(Names) + Cardinality(CommandKeys)

\* Every finite amount of the model is a multiple of Unit.
Unit == LcmUpTo(MaxDivisor)

(* ------------------------------ float ---------------------------------- *)

Fin(n) == <<"fin", n>>
NaN == <<"nan", 0>>
PInf == <<"inf", 1>>
NInf == <<"inf", -1>>
Zero == Fin(0)

IsFinite(x) == x[1] = "fin"
IsNaN(x) == x[1] = "nan"

\* float.__neg__
FNeg(x) == <<x[1], 0 - x[2]>>

\* float.__add__
FAdd(x, y) ==
  IF IsNaN(x) \/ IsNaN(y) THEN NaN
  ELSE IF x[1] = "inf" THEN (IF y[1] = "inf" /\ y[2] # x[2] THEN NaN ELSE x)
  ELSE IF y[1] = "inf" THEN y
  ELSE Fin(x[2] + y[2])

\* float.__sub__
FSub(x, y) == FAdd(x, FNeg(y))

\* float.__truediv__ by a positive int
FDiv(x, n) == IF IsFinite(x) THEN Fin(x[2] \div n) ELSE x

\* float.__lt__
FLt(x, y) ==
  IF IsNaN(x) \/ IsNaN(y) THEN FALSE
  ELSE IF x[1] = "inf" THEN x[2] = -1 /\ y # x
  ELSE IF y[1] = "inf" THEN y[2] = 1
  ELSE x[2] < y[2]

\* float.__eq__
FEq(x, y) == ~IsNaN(x) /\ ~IsNaN(y) /\ x = y

\* builtin min(a, b): b when b < a, else a
FMin(a, b) == IF FLt(b, a) THEN b ELSE a

(* ------------------------------ dict ----------------------------------- *)

Range(s) == {s[i] : i \in DOMAIN s}

Keys(d) == {d[i].k : i \in DOMAIN d}

Values(d) == [i \in DOMAIN d |-> d[i].v]

\* key equality: str by value, frozenset by its elements
KeyEq(a, b, isSet) == IF isSet THEN Range(a) = Range(b) ELSE a = b

HasKey(d, key, isSet) == \E i \in DOMAIN d : KeyEq(d[i].k, key, isSet)

IndexOf(d, key, isSet) == CHOOSE i \in DOMAIN d : KeyEq(d[i].k, key, isSet)

\* dict.get(key, default)
DictGet(d, key, default, isSet) ==
  IF HasKey(d, key, isSet) THEN d[IndexOf(d, key, isSet)].v ELSE default

\* d[key] = value: an existing key keeps its position (and the stored key
\* object), a new key is appended
DictSet(d, key, value, isSet) ==
  IF HasKey(d, key, isSet)
  THEN [i \in DOMAIN d |->
          IF i = IndexOf(d, key, isSet) THEN [k |-> d[i].k, v |-> value] ELSE d[i]]
  ELSE Append(d, [k |-> key, v |-> value])

\* builtin sum(values): 0 + v1 + v2 + ...
RECURSIVE SumFrom(_, _)
SumFrom(acc, vs) == IF vs = <<>> THEN acc ELSE SumFrom(FAdd(acc, vs[1]), Tail(vs))

(* ------------------------------ ChatData ------------------------------- *)

NoneVal == <<>>
Some(x) == <<x>>

PyList(items) == [type |-> "list", items |-> items]
PyStr(chars) == [type |-> "str", items |-> chars]

self == [users |-> users, logs |-> logs, expenditure |-> expenditure,
         shared_expenditure |-> shared_expenditure]

\* ChatData.__init__
ChatData == [users |-> PyList(<<>>), logs |-> <<>>, expenditure |-> <<>>,
             shared_expenditure |-> <<>>]

\* the chats served by the application
Chats == {1, 2}

\* a plausible slip: the four containers are class attributes, created once
\* and shared by every instance
new_ChatData_shared(h) ==
  [heap |-> IF h = <<>> THEN <<ChatData.users, ChatData.logs, ChatData.expenditure,
                               ChatData.shared_expenditure>> ELSE h,
   ref |-> [users |-> 1, logs |-> 2, expenditure |-> 3, shared_expenditure |-> 4]]

\* ChatData() on the heap h: __init__ creates four new objects; ref holds the
\* address of each field's object
new_ChatData(h) ==
  [heap |-> h \o <<ChatData.users, ChatData.logs, ChatData.expenditure,
                   ChatData.shared_expenditure>>,
   ref |-> [users |-> Len(h) + 1, logs |-> Len(h) + 2, expenditure |-> Len(h) + 3,
            shared_expenditure |-> Len(h) + 4]]

\* application.chat_data with context_types chat_data=ChatData: one ChatData()
\* per chat
RECURSIVE new_chats(_, _)
new_chats(h, n) ==
  IF n = 0 THEN [heap |-> h, refs |-> <<>>]
  ELSE LET before == new_chats(h, n - 1)
           made == new_ChatData(before.heap)
       IN [heap |-> made.heap, refs |-> Append(before.refs, made.ref)]

\* the ChatData at ref, by value
Deref(h, ref) ==
  [users |-> h[ref.users], logs |-> h[ref.logs], expenditure |-> h[ref.expenditure],
   shared_expenditure |-> h[ref.shared_expenditure]]

\* the heap after the objects of ref were mutated in place to the fields of s
\* (list.clear, list.append, dict item assignment)
StoreInPlace(h, ref, s) ==
  [a \in DOMAIN h |->
     IF a = ref.shared_expenditure THEN s.shared_expenditure
     ELSE IF a = ref.expenditure THEN s.expenditure
     ELSE IF a = ref.logs THEN s.logs
     ELSE IF a = ref.users THEN s.users
     ELSE h[a]]

\* ChatData.clear: list.clear() on each field; a str has no clear(), so the
\* first statement raises AttributeError before anything is emptied
clear_raises(s) == s.users.type # "list"

clear(s) ==
  IF clear_raises(s) THEN s
  ELSE [users |-> PyList(<<>>), logs |-> <<>>, expenditure |-> <<>>,
        shared_expenditure |-> <<>>]

\* for user in users: self.expenditure[user] = 0.0
RECURSIVE ZeroEach(_, _)
ZeroEach(exp, items) ==
  IF items = <<>> THEN exp
  ELSE ZeroEach(DictSet(exp, items[1], Fin(0), FALSE), Tail(items))

\* a plausible slip: setdefault, an existing entry keeps its amount
RECURSIVE ZeroMissing(_, _)
ZeroMissing(exp, items) ==
  IF items = <<>> THEN exp
  ELSE ZeroMissing(IF HasKey(exp, items[1], FALSE) THEN exp
                   ELSE DictSet(exp, items[1], Fin(0), FALSE), Tail(items))

include_setdefault(s, us) ==
  [users |-> us, logs |-> s.logs,
   expenditure |-> ZeroMissing(s.expenditure, us.items),
   shared_expenditure |-> s.shared_expenditure]

\* ChatData.include
include(s, us) ==
  [users |-> us, logs |-> s.logs,
   expenditure |-> ZeroEach(s.expenditure, us.items),
   shared_expenditure |-> s.shared_expenditure]

\* frozenset(others): the set of iteration orders the built set can have
\* (CPython orders a set of str by hash, which differs from run to run)
frozenset(others) ==
  LET S == Range(others)
      n == Cardinality(S)
  IN {f \in [1..n -> S] : \A i, j \in 1..n : i # j => f[i] # f[j]}

\* a plausible slip: the sharers are keyed as given (tuple(others)), so the
\* same sharers in another order make another entry
update_expenditure_by_list(s, key, value, others, fs) ==
  IF others = NoneVal
  THEN LET p_value == DictGet(s.expenditure, key, Fin(0), FALSE)
       IN [users |-> s.users, logs |-> s.logs,
           expenditure |-> DictSet(s.expenditure, key, FAdd(p_value, value), FALSE),
           shared_expenditure |-> s.shared_expenditure]
  ELSE LET debtor_value_dict == DictGet(s.shared_expenditure, key, <<>>, FALSE)
           updated == DictSet(debtor_value_dict, others[1],
                              FAdd(DictGet(debtor_value_dict, others[1], Fin(0), FALSE), value),
                              FALSE)
       IN [users |-> s.users, logs |-> s.logs, expenditure |-> s.expenditure,
           shared_expenditure |-> DictSet(s.shared_expenditure, key, updated, FALSE)]

\* a plausible slip: a payer outside the known participants is ignored
update_expenditure_known_only(s, key, value, others, fs) ==
  IF others = NoneVal /\ key \notin Range(s.users.items)
  THEN s
  ELSE IF others = NoneVal
  THEN LET p_value == DictGet(s.expenditure, key, Fin(0), FALSE)
       IN [users |-> s.users, logs |-> s.logs,
           expenditure |-> DictSet(s.expenditure, key, FAdd(p_value, value), FALSE),
           shared_expenditure |-> s.shared_expenditure]
  ELSE LET debtor_value_dict == DictGet(s.shared_expenditure, key, <<>>, FALSE)
           updated == DictSet(debtor_value_dict, fs,
                              FAdd(DictGet(debtor_value_dict, fs, Fin(0), TRUE), value), TRUE)
       IN [users |-> s.users, logs |-> s.logs, expenditure |-> s.expenditure,
           shared_expenditure |-> DictSet(s.shared_expenditure, key, updated, FALSE)]

\* ChatData.update_expenditure; fs is frozenset(others) when others is a list
update_expenditure(s, key, value, others, fs) ==
  IF others = NoneVal
  THEN LET p_value == DictGet(s.expenditure, key, Fin(0), FALSE)
       IN [users |-> s.users, logs |-> s.logs,
           expenditure |-> DictSet(s.expenditure, key, FAdd(p_value, value), FALSE),
           shared_expenditure |-> s.shared_expenditure]
  ELSE LET debtor_value_dict == DictGet(s.shared_expenditure, key, <<>>, FALSE)
           updated == DictSet(debtor_value_dict, fs,
                              FAdd(DictGet(debtor_value_dict, fs, Fin(0), TRUE), value), TRUE)
       IN [users |-> s.users, logs |-> s.logs, expenditure |-> s.expenditure,
           shared_expenditure |-> DictSet(s.shared_expenditure, key, updated, FALSE)]

\* datetime -> Asia/Singapore (UTC+8) -> strftime; a time is [day, hour] in UTC
sg_datetime(update_time) ==
  [day |-> (update_time.day + (update_time.hour + 8) \div 24) % 7,
   hour |-> (update_time.hour + 8) % 24]

\* ChatData.update_log
update_log(s, update_time, log) ==
  [users |-> s.users,
   logs |-> Append(s.logs, <<sg_datetime(update_time), "---", log>>),
   expenditure |-> s.expenditure, shared_expenditure |-> s.shared_expenditure]

\* a plausible slip: the divisor is the number of known participants
num_people_users(s) == Len(s.users.items)

\* line 51: num_people = len(self.expenditure)
num_people(s) == Len(s.expenditure)

\* a plausible slip: no except ZeroDivisionError, the quotient 0/0 is kept
avg_expenditure_unguarded(s) ==
  LET total_expenditure == SumFrom(Fin(0), Values(s.expenditure))
  IN IF num_people(s) = 0 THEN NaN ELSE FDiv(total_expenditure, num_people(s))

\* ChatData.avg_expenditure
avg_expenditure(s) ==
  LET total_expenditure == SumFrom(Fin(0), Values(s.expenditure))
  IN IF num_people(s) = 0 THEN Fin(0) ELSE FDiv(total_expenditure, num_people(s))

(* ------------------------ ChatData.resolve_expenses --------------------- *)

\* line 67: debts = {person: expense - avg_expenditure for ...}
initial_debts(s) ==
  LET avg == avg_expenditure(s)
  IN [i \in DOMAIN s.expenditure |->
        [k |-> s.expenditure[i].k, v |-> FSub(s.expenditure[i].v, avg)]]

\* lines 75-77: for debtor in debtors: debts[debtor] = debtor_balance - shared_expense
RECURSIVE charge_debtors(_, _, _)
charge_debtors(debts, debtors, shared_expense) ==
  IF debtors = <<>> THEN debts
  ELSE LET debtor == debtors[1]
           debtor_balance == DictGet(debts, debtor, Fin(0), FALSE)
       IN charge_debtors(DictSet(debts, debtor, FSub(debtor_balance, shared_expense), FALSE),
                         Tail(debtors), shared_expense)

\* lines 70-77: for debtors, value in debtor_value_dict.items()
RECURSIVE share_entries(_, _, _)
share_entries(debts, creditor, debtor_value_dict) ==
  IF debtor_value_dict = <<>> THEN debts
  ELSE LET debtors == debtor_value_dict[1].k
           value == debtor_value_dict[1].v
           shared_expense == FDiv(value, Len(debtors) + 1)
           creditor_balance == DictGet(debts, creditor, Fin(0), FALSE)
           credited == DictSet(debts, creditor, FAdd(creditor_balance, shared_expense), FALSE)
       IN share_entries(charge_debtors(credited, debtors, shared_expense),
                        creditor, Tail(debtor_value_dict))

\* lines 69-77: for creditor, debtor_value_dict in self.shared_expenditure.items()
RECURSIVE share_all(_, _)
share_all(debts, shared) ==
  IF shared = <<>> THEN debts
  ELSE share_all(share_entries(debts, shared[1].k, shared[1].v), Tail(shared))

\* lines 65-77: the net balances
debts_of(s) == share_all(initial_debts(s), s.shared_expenditure)

\* lines 79-80
creditors_of(debts) == SelectSeq(debts, LAMBDA e : FLt(Fin(0), e.v))
debtors_of(debts) == SelectSeq(debts, LAMBDA e : FLt(e.v, Fin(0)))

\* a plausible slip: the test of lines 88-89 is missing, a creditor whose
\* remaining amount is 0 is not skipped
RECURSIVE match_creditors_no_skip(_, _, _, _)
match_creditors_no_skip(st, i, debtor_amount, j) ==
  IF j > Len(st.creditors) THEN st
  ELSE LET creditor_amount == st.creditors[j].v
       IN IF FEq(debtor_amount, Fin(0)) THEN st
          ELSE LET transfer_amount == FMin(FNeg(debtor_amount), creditor_amount)
                   nxt == [debtors |-> DictSet(st.debtors, st.debtors[i].k,
                                                  FAdd(st.debtors[i].v, transfer_amount), FALSE),
                           creditors |-> DictSet(st.creditors, st.creditors[j].k,
                                                    FSub(st.creditors[j].v, transfer_amount), FALSE),
                           transactions |-> Append(st.transactions,
                                <<st.debtors[i].k, st.creditors[j].k, transfer_amount>>)]
               IN match_creditors_no_skip(nxt, i, debtor_amount, j + 1)

\* lines 85-99: the inner loop from creditor j on. debtor_amount is the loop
\* variable bound by the outer loop (line 84); line 95 updates debtors[debtor],
\* not debtor_amount. creditor_amount is read from the dict on each iteration.
RECURSIVE match_creditors(_, _, _, _)
match_creditors(st, i, debtor_amount, j) ==
  IF j > Len(st.creditors) THEN st
  ELSE LET creditor_amount == st.creditors[j].v
       IN IF FEq(debtor_amount, Fin(0)) THEN st
          ELSE IF FEq(creditor_amount, Fin(0))
          THEN match_creditors(st, i, debtor_amount, j + 1)
          ELSE LET transfer_amount == FMin(FNeg(debtor_amount), creditor_amount)
                   nxt == [debtors |-> DictSet(st.debtors, st.debtors[i].k,
                                                  FAdd(st.debtors[i].v, transfer_amount), FALSE),
                           creditors |-> DictSet(st.creditors, st.creditors[j].k,
                                                    FSub(st.creditors[j].v, transfer_amount), FALSE),
                           transactions |-> Append(st.transactions,
                                <<st.debtors[i].k, st.creditors[j].k, transfer_amount>>)]
               IN match_creditors(nxt, i, debtor_amount, j + 1)

\* lines 84-99: the outer loop from debtor i on
RECURSIVE match_debtors(_, _)
match_debtors(st, i) ==
  IF i > Len(st.debtors) THEN st
  ELSE match_debtors(match_creditors(st, i, st.debtors[i].v, 1), i + 1)

\* lines 79-99
settle(debts) ==
  match_debtors([debtors |-> debtors_of(debts), creditors |-> creditors_of(debts),
                 transactions |-> <<>>], 1)

\* a plausible slip: debts aliases self.expenditure and is updated in place
resolve_expenses_in_place(s) ==
  [self |-> [users |-> s.users, logs |-> s.logs, expenditure |-> debts_of(s),
             shared_expenditure |-> s.shared_expenditure],
   ret |-> settle(debts_of(s)).transactions]

\* ChatData.resolve_expenses: the object after the call and the returned list
resolve_expenses(s) == [self |-> s, ret |-> settle(debts_of(s)).transactions]

(* ------------------- the ledger driven through its methods -------------- *)

\* amounts passed to update_expenditure
Amounts == {Fin(Unit), Fin(0 - Unit), NaN}

\* participant lists passed to include: the non-empty lists without
\* repetition, in roster order
UserLists ==
  LET Picks == {f \in UNION {[1..n -> DOMAIN Roster] : n \in 1..Len(Roster)} :
                  \A i, j \in DOMAIN f : i < j => f[i] < f[j]}
  IN {[i \in DOMAIN f |-> Roster[f[i]]] : f \in Picks}

\* payers of the shared contributions, and the participants they share with
Payers == {"A", "B"}

Sharers == {"A", "B", "C"}

MaxOthers == 2

\* sharer lists passed to update_expenditure by payer: the lists without
\* repetition of at most MaxOthers of the other Sharers
OthersLists(payer) ==
  {os \in UNION {[1..n -> Sharers \ {payer}] : n \in 0..MaxOthers} :
     \A i, j \in DOMAIN os : i # j => os[i] # os[j]}

Times == {[day |-> 6, hour |-> 20]}

LogTexts == {"/add A"}

Init ==
  /\ users = ChatData.users
  /\ logs = ChatData.logs
  /\ expenditure = ChatData.expenditure
  /\ shared_expenditure = ChatData.shared_expenditure
  /\ out = NoneVal
  /\ calls = 0
  /\ heap = new_chats(<<>>, Cardinality(Chats)).heap
  /\ chat_data = new_chats(<<>>, Cardinality(Chats)).refs

\* the object becomes s and the call returns ret
Returns(s, ret) ==
  /\ users' = s.users
  /\ logs' = s.logs
  /\ expenditure' = s.expenditure
  /\ shared_expenditure' = s.shared_expenditure
  /\ out' = ret
  /\ UNCHANGED <<heap, chat_data>>

Mutating == calls < MaxCalls /\ calls' = calls + 1

Include ==
  \E us \in UserLists : Mutating /\ Returns(include(self, PyList(us)), NoneVal)

AddEqual ==
  \E key \in Names, value \in Amounts :
    Mutating /\ Returns(update_expenditure(self, key, value, NoneVal, <<>>), NoneVal)

AddShared ==
  \E key \in Payers, value \in Amounts :
    \E others \in OthersLists(key) : \E fs \in frozenset(others) :
      Mutating /\ Returns(update_expenditure(self, key, value, Some(others), fs), NoneVal)

UpdateLog ==
  \E t \in Times, log \in LogTexts : Mutating /\ Returns(update_log(self, t, log), NoneVal)

Clear == Mutating /\ ~clear_raises(self) /\ Returns(clear(self), NoneVal)

Resolve ==
  LET r == resolve_expenses(self)
  IN Returns(r.self, Some(r.ret)) /\ UNCHANGED calls

Next == Include \/ AddEqual \/ AddShared \/ UpdateLog \/ Clear \/ Resolve

Spec == Init /\ [][Next]_vars

(* ------------------- the ledger driven through the commands ------------- *)

DigitChars == <<"0", "1", "2", "3", "4", "5", "6", "7", "8", "9">>

IsDigit(c) == \E d \in DOMAIN DigitChars : DigitChars[d] = c

DigitValue(c) == (CHOOSE d \in DOMAIN DigitChars : DigitChars[d] = c) - 1

\* str(n) for n >= 0
RECURSIVE Decimal(_)
Decimal(n) ==
  IF n < 10 THEN <<DigitChars[n + 1]>> ELSE Append(Decimal(n \div 10), DigitChars[(n % 10) + 1])

RECURSIVE ParseDigits(_, _)
ParseDigits(acc, chars) ==
  IF chars = <<>> THEN acc ELSE ParseDigits(acc * 10 + DigitValue(chars[1]), Tail(chars))

\* float(value) on a word without blanks: an optional sign, then digits, "nan",
\* "inf" or "infinity"; anything else raises ValueError (None here)
float_of(value) ==
  LET signed == value # <<>> /\ value[1] \in {"+", "-"}
      neg == signed /\ value[1] = "-"
      body == IF signed THEN Tail(value) ELSE value
  IN IF body = <<"n", "a", "n">> THEN Some(NaN)
     ELSE IF body \in {<<"i", "n", "f">>, <<"i", "n", "f", "i", "n", "i", "t", "y">>}
     THEN Some(IF neg THEN NInf ELSE PInf)
     ELSE IF body # <<>> /\ \A i \in DOMAIN body : IsDigit(body[i])
     THEN Some(Fin(IF neg THEN 0 - ParseDigits(0, body) ELSE ParseDigits(0, body)))
     ELSE NoneVal

\* ' '.join(words)
RECURSIVE Join(_)
Join(words) ==
  IF words = <<>> THEN <<>>
  ELSE IF Len(words) = 1 THEN words[1]
  ELSE words[1] \o <<" ">> \o Join(Tail(words))

\* iterating a str gives its characters, each a str of length 1
StrItems(chars) == [i \in DOMAIN chars |-> <<chars[i]>>]

\* \w (and \d, _) of handle_pattern
WordChars == {"a", "b", "_"} \cup {DigitChars[d] : d \in DOMAIN DigitChars}

\* \s
SpaceChars == {" "}

\* length of the longest run of word characters at the head of chars
RECURSIVE WordRun(_)
WordRun(chars) ==
  IF chars # <<>> /\ chars[1] \in WordChars THEN 1 + WordRun(Tail(chars)) ELSE 0

\* chars is (\s@[\w\d_]+) repeated exactly n times
RECURSIVE MatchMore(_, _)
MatchMore(chars, n) ==
  IF n = 0 THEN chars = <<>>
  ELSE /\ Len(chars) >= 3
       /\ chars[1] \in SpaceChars
       /\ chars[2] = "@"
       /\ WordRun(SubSeq(chars, 3, Len(chars))) >= 1
       /\ MatchMore(SubSeq(chars, 3 + WordRun(SubSeq(chars, 3, Len(chars))), Len(chars)), n - 1)

\* re.fullmatch(handle_regex(num_handles), chars). With num_handles = 0 the
\* pattern ends in the literal text {-1}, which no argument string contains.
handle_regex_fullmatch(num_handles, chars) ==
  /\ num_handles >= 1
  /\ Len(chars) >= 2
  /\ chars[1] = "@"
  /\ WordRun(Tail(chars)) >= 1
  /\ MatchMore(SubSeq(chars, 2 + WordRun(Tail(chars)), Len(chars)), num_handles - 1)

\* the reply sent to the chat and the exception the handler ends with
\* reply is None or [text, lines]: the fixed text of the message and the values
\* formatted into it
Message(text, lines) == [text |-> text, lines |-> lines]
Reply(text) == [reply |-> Some(Message(text, <<>>)), exc |-> NoneVal]
ReplyWith(text, lines) == [reply |-> Some(Message(text, lines)), exc |-> NoneVal]
Raise(reply, exc) == [reply |-> reply, exc |-> Some(exc)]

\* arguments of /include
IncludeArgs ==
  {<<HandleA, HandleB>>, <<HandleB, HandleA>>, <<HandleA>>, <<BareA, HandleB>>, <<>>}

\* the words an /add gives as its amount
ValueWords ==
  {Decimal(Unit), <<"-">> \o Decimal(Unit), <<"n", "a", "n">>, <<"i", "n", "f">>,
   <<"a", "b">>}

\* arguments of /add
AddArgs ==
  {<<>>}
  \cup {<<v>> : v \in {Decimal(Unit)}}
  \cup {<<h, v>> : h \in Handles, v \in ValueWords}
  \cup {<<h, v, o>> : h \in {HandleA}, v \in ValueWords, o \in {HandleB}}
  \cup {<<HandleA, Decimal(Unit), HandleB, BareA>>}

\* handler include (/include)
include_handler(s, args) ==
  LET joined == Join(args)
      num_users == Len(args)
  IN IF handle_regex_fullmatch(num_users, joined)
     THEN [self |-> include(s, PyStr(StrItems(joined))), out |-> ReplyWith("Alright! We detected", <<num_users>>)]
     ELSE [self |-> s, out |-> Reply("Error: the format should be /include @name @name @name...")]

\* handler add (/add); date and text are those of the message, fs is
\* frozenset(others) when there are others
add_handler(s, args, date, fs) ==
  IF Len(s.users.items) = 0
  THEN [self |-> s, out |-> Reply("Error: Please use the /include command to add users first!")]
  ELSE IF Len(args) = 0
  THEN \* line 182 raises IndexError: the error is replied, then value is unbound
       [self |-> s, out |-> Raise(Reply("Error: the format should be '/add @name value @other_name'.").reply,
                               "UnboundLocalError")]
  ELSE LET person == IF Len(args) > 2 THEN args[1] ELSE Join(SubSeq(args, 1, Len(args) - 1))
           value == IF Len(args) > 2 THEN args[2] ELSE args[Len(args)]
           others == IF Len(args) > 2 THEN Some(SubSeq(args, 3, Len(args))) ELSE NoneVal
           parsed == float_of(value)
       IN IF parsed = NoneVal
          THEN [self |-> s, out |-> Reply("Error: non-numeric value for expense found.")]
          ELSE [self |-> update_log(update_expenditure(s, person, parsed[1], others, fs),
                                    date, <<<<"/", "a", "d", "d">>>> \o args),
                out |-> Reply("Added!")]

\* handler clear (/clear)
clear_handler(s) ==
  IF clear_raises(s) THEN [self |-> clear(s), out |-> Raise(NoneVal, "AttributeError")]
  ELSE [self |-> clear(s), out |-> Reply("All records have been cleared!")]

\* handler resolve (/resolve): one line "debtor pays creditor $amount" per
\* transaction (.2f leaves the whole amounts of the model as they are); an
\* empty message cannot be sent, and the except branch replies instead
resolve_handler(s) ==
  LET r == resolve_expenses(s)
  IN [self |-> r.self,
      out |-> IF r.ret = <<>>
              THEN Reply("Either no individuals added, no expenses added, or everyone has spent equal amounts.")
              ELSE ReplyWith("pays", r.ret)]

Command == calls < MaxCalls /\ calls' = calls + 1

CmdInclude ==
  \E args \in IncludeArgs :
    LET r == include_handler(self, args) IN Command /\ Returns(r.self, r.out)

CmdAdd ==
  \E args \in AddArgs, date \in Times :
    \E fs \in (IF Len(args) > 2 THEN frozenset(SubSeq(args, 3, Len(args))) ELSE {<<>>}) :
      LET r == add_handler(self, args, date, fs) IN Command /\ Returns(r.self, r.out)

CmdClear ==
  LET r == clear_handler(self) IN Command /\ Returns(r.self, r.out)

CmdResolve ==
  LET r == resolve_handler(self) IN Returns(r.self, r.out) /\ UNCHANGED calls

BotNext == CmdInclude \/ CmdAdd \/ CmdClear \/ CmdResolve

BotSpec == Init /\ [][BotNext]_vars

(* ------------------------------ properties ------------------------------ *)

\* what resolve() computes in the current state
Balances == debts_of(self)
Transactions == resolve_expenses(self).ret

BalanceOf(p) == DictGet(Balances, p, Fin(0), FALSE)

Amounts3(txs) == [i \in DOMAIN txs |-> txs[i][3]]

\* total paid by p / received by p in the transactions txs
PaidBy(txs, p) == SumFrom(Fin(0), Amounts3(SelectSeq(txs, LAMBDA t : t[1] = p)))
ReceivedBy(txs, p) == SumFrom(Fin(0), Amounts3(SelectSeq(txs, LAMBDA t : t[2] = p)))

DebtorNames == {p \in Keys(Balances) : FLt(BalanceOf(p), Fin(0))}
CreditorNames == {p \in Keys(Balances) : FLt(Fin(0), BalanceOf(p))}

BalanceSum == SumFrom(Fin(0), Values(Balances))

\* every stored sharer set has at least one sharer
SharerSetsNonEmpty ==
  \A i \in DOMAIN shared_expenditure :
    \A j \in DOMAIN shared_expenditure[i].v : Len(shared_expenditure[i].v[j].k) >= 1

\* C1: every debtor pays, in total, exactly the absolute value of its net
\* balance.
C1_DebtorConservation ==
  \A p \in DebtorNames : PaidBy(Transactions, p) = FNeg(BalanceOf(p))

\* C1, on the ledgers whose balances sum to 0 (the failure does not rest on C3)
C1_DebtorConservationZeroSum == (BalanceSum = Fin(0)) => C1_DebtorConservation

\* C2: a non-empty result has at most |debtors| + |creditors| - 1
\* transactions, and after each transfer the remaining balance of its debtor
\* or of its creditor is exactly 0.
C2_TransactionBound ==
  LET txs == Transactions
  IN Len(txs) >= 1 =>
       /\ Len(txs) <= Cardinality(DebtorNames) + Cardinality(CreditorNames) - 1
       /\ \A n \in DOMAIN txs :
            LET done == SubSeq(txs, 1, n)
                d == txs[n][1]
                c == txs[n][2]
            IN \/ FAdd(BalanceOf(d), PaidBy(done, d)) = Fin(0)
               \/ FSub(BalanceOf(c), ReceivedBy(done, c)) = Fin(0)

\* C2, on the ledgers whose balances sum to 0
C2_TransactionBoundZeroSum == (BalanceSum = Fin(0)) => C2_TransactionBound

\* C3: with sharer sets of size >= 1, the net balances sum to 0.
C3_ZeroSum == SharerSetsNonEmpty => BalanceSum = Fin(0)

\* the ledger holds exactly one shared contribution: payer P, sharers fs, amount v
OnlyShared(P, fs, v) ==
  /\ \A i \in DOMAIN expenditure : expenditure[i].v = Fin(0)
  /\ Len(shared_expenditure) = 1
  /\ shared_expenditure[1].k = P
  /\ Len(shared_expenditure[1].v) = 1
  /\ shared_expenditure[1].v[1] = [k |-> fs, v |-> v]

\* C4: a ledger holding only one shared contribution v > 0 of payer P with
\* k >= 1 sharers (P not among them) resolves to exactly one transaction per
\* sharer, each to P and of amount v/(k+1).
C4_SharedSplitEvenly ==
  \A P \in Names :
    (/\ Len(shared_expenditure) = 1
     /\ Len(shared_expenditure[1].v) = 1
     /\ LET fs == shared_expenditure[1].v[1].k
            v == shared_expenditure[1].v[1].v
        IN /\ OnlyShared(P, fs, v)
           /\ FLt(Fin(0), v) /\ IsFinite(v)
           /\ Len(fs) >= 1 /\ P \notin Range(fs))
    => LET fs == shared_expenditure[1].v[1].k
           v == shared_expenditure[1].v[1].v
       IN /\ Len(Transactions) = Len(fs)
          /\ Range(Transactions) = {<<x, P, FDiv(v, Len(fs) + 1)>> : x \in Range(fs)}

\* C5: every creditor receives, in total, exactly its net balance.
C5_CreditorConservation ==
  \A c \in CreditorNames : ReceivedBy(Transactions, c) = BalanceOf(c)

\* C5 holds on the ledgers whose balances sum to 0: it fails only with C3
C5_CreditorConservationZeroSum == (BalanceSum = Fin(0)) => C5_CreditorConservation

IncludeStep(us) == users' = PyList(us) /\ self' = include(self, PyList(us))

EqualOf(exp, p) == DictGet(exp, p, Fin(0), FALSE)

\* C6 as claimed: include(P) leaves the accumulated amount of every p in P
\* that already has an entry as it was.
C6_IncludeKeepsExisting ==
  [][\A us \in UserLists :
       IncludeStep(us) =>
         \A p \in Range(us) \cap Keys(expenditure) :
           EqualOf(expenditure', p) = EqualOf(expenditure, p)]_vars

\* C6 amended: include(P) sets the entry of every p in P to 0.0, whether or
\* not p had one; the entries of the participants outside P, the shared
\* contributions and the logs are unchanged, and P becomes the participants.
C6_IncludeZeroesAll ==
  [][\A us \in UserLists :
       IncludeStep(us) =>
         /\ \A p \in Range(us) : EqualOf(expenditure', p) = Fin(0)
         /\ Keys(expenditure') = Keys(expenditure) \cup Range(us)
         /\ \A p \in Keys(expenditure) \ Range(us) :
              EqualOf(expenditure', p) = EqualOf(expenditure, p)
         /\ users' = PyList(us)
         /\ UNCHANGED <<logs, shared_expenditure>>]_vars

\* an include of a participant whose accumulated amount is not 0 can happen
C6_Witness ==
  ENABLED (/\ Include
           /\ \E p \in Keys(expenditure) :
                /\ EqualOf(expenditure, p) # Fin(0)
                /\ p \in Range(users'.items)
                /\ EqualOf(expenditure', p) = Fin(0))

KnownParticipants == Range(users.items)

\* C7 as claimed: with a non-empty participant set, the average divides by
\* the number of known participants.
C7_DivisorIsParticipantCount ==
  users.items # <<>> => num_people(self) = Cardinality(KnownParticipants)

\* C7 amended: the average divides by the number of EqualContribution
\* entries; every known participant has an entry, so the divisor is at least
\* the number of known participants.
C7_DivisorIsEntryCount ==
  /\ num_people(self) = Cardinality(Keys(expenditure))
  /\ KnownParticipants \subseteq Keys(expenditure)

\* a ledger with more EqualContribution entries than known participants
C7_Witness ==
  /\ users.items # <<>>
  /\ Cardinality(Keys(expenditure)) > Cardinality(KnownParticipants)
  /\ \E i \in DOMAIN expenditure : expenditure[i].v # Fin(0)

\* C8: a call of resolve() leaves users, expenditure, shared_expenditure and
\* logs unchanged, and a resolve() that follows a resolve() returns the
\* same list.
C8_ResolveIsPure ==
  [][out' # NoneVal =>
       /\ UNCHANGED <<users, logs, expenditure, shared_expenditure>>
       /\ out # NoneVal => out' = out]_vars

\* resolve() has returned transactions on a ledger with equal and shared
\* contributions and a log line
C8_Witness ==
  /\ out # NoneVal
  /\ Len(out[1]) >= 2
  /\ expenditure # <<>> /\ shared_expenditure # <<>> /\ logs # <<>>

\* the (payer, set of sharers) pairs that have a shared entry in s
SharedEntries(s) ==
  UNION {{<<s.shared_expenditure[i].k, Range(s.shared_expenditure[i].v[j].k)>> :
            j \in DOMAIN s.shared_expenditure[i].v} : i \in DOMAIN s.shared_expenditure}

\* number of shared entries stored in s
SharedEntryCount(s) ==
  Cardinality(UNION {{<<i, j>> : j \in DOMAIN s.shared_expenditure[i].v} :
                       i \in DOMAIN s.shared_expenditure})

\* accumulated amount of the shared entry (payer, S), 0 when there is none
SharedTotal(s, payer, S) ==
  LET I == {i \in DOMAIN s.shared_expenditure : s.shared_expenditure[i].k = payer}
  IN IF I = {} THEN Fin(0)
     ELSE LET d == s.shared_expenditure[CHOOSE i \in I : TRUE].v
              J == {j \in DOMAIN d : Range(d[j].k) = S}
          IN IF J = {} THEN Fin(0) ELSE d[CHOOSE j \in J : TRUE].v

\* C9: there is one shared entry per (payer, set of sharers); an add_shared
\* adds its amount to the entry of its payer and of the set of its sharers, in
\* whatever order they are listed, and leaves every other entry as it was
\* (stated of every call the ledger can take in the current state).
C9_SharedKeyedBySet ==
  /\ SharedEntryCount(self) = Cardinality(SharedEntries(self))
  /\ calls < MaxCalls =>
     \A key \in Payers, value \in Amounts :
       \A others \in OthersLists(key) : \A fs \in frozenset(others) :
         LET after == update_expenditure(self, key, value, Some(others), fs)
             called == <<key, Range(others)>>
         IN /\ SharedEntryCount(after) = Cardinality(SharedEntries(after))
            /\ SharedEntries(after) = SharedEntries(self) \cup {called}
            /\ \A e \in SharedEntries(after) :
                 SharedTotal(after, e[1], e[2]) =
                   IF e = called THEN FAdd(SharedTotal(self, e[1], e[2]), value)
                   ELSE SharedTotal(self, e[1], e[2])

\* one payer has an entry of two sharers that two calls accumulated, and
\* an entry with another sharer set
C9_Witness ==
  \E e, f \in SharedEntries(self) :
    /\ e[1] = f[1] /\ Cardinality(e[2]) = 2 /\ e[2] # f[2]
    /\ SharedTotal(self, e[1], e[2]) = Fin(2 * Unit)
    /\ SharedTotal(self, f[1], f[2]) = Fin(Unit)

\* the replies and exceptions by which a command reports a failure
IsError(o) ==
  \/ o.exc # NoneVal
  \/ o.reply \in {Reply(e).reply : e \in
       {"Error: Please use the /include command to add users first!",
        "Error: the format should be '/add @name value @other_name'.",
        "Error: non-numeric value for expense found."}}

\* the amount word of an /add with these arguments
AmountWord(args) == IF Len(args) > 2 THEN args[2] ELSE args[Len(args)]

NonFiniteAmount(args) ==
  /\ Len(args) > 0
  /\ float_of(AmountWord(args)) # NoneVal
  /\ ~IsFinite(float_of(AmountWord(args))[1])

AddStep(args, date, fs) ==
  /\ logs' = add_handler(self, args, date, fs).self.logs
  /\ self' = add_handler(self, args, date, fs).self
  /\ out' = add_handler(self, args, date, fs).out

\* C10: an /add whose amount is not a finite number (nan, inf, -inf) is
\* answered with an error, and expenditure, shared_expenditure, users and logs
\* are what they were before the command.
C10_NonFiniteRejected ==
  [][\A args \in AddArgs, date \in Times :
       \A fs \in (IF Len(args) > 2 THEN frozenset(SubSeq(args, 3, Len(args))) ELSE {<<>>}) :
         (/\ Len(users.items) > 0
          /\ NonFiniteAmount(args)
          /\ calls' = calls + 1
          /\ AddStep(args, date, fs))
         => /\ UNCHANGED <<users, logs, expenditure, shared_expenditure>>
            /\ IsError(out')]_vars

\* C11: an add_shared with an empty sharer set is rejected: the ledger is as
\* it was, and resolve() computes the same balances as before the call.
C11_EmptySharersRejected ==
  [][\A key \in Payers, value \in Amounts :
       (/\ calls' = calls + 1
        /\ self' = update_expenditure(self, key, value, Some(<<>>), <<>>))
       => /\ UNCHANGED <<expenditure, shared_expenditure>>
          /\ debts_of(self') = debts_of(self)]_vars

\* a /clear command has been handled
ClearStep ==
  /\ calls' = calls + 1
  /\ self' = clear_handler(self).self
  /\ out' = clear_handler(self).out

\* C12: after a /clear, whatever commands preceded it, users, expenditure,
\* shared_expenditure and logs are empty, and the command ends without error.
C12_ClearResets ==
  [][ClearStep =>
       /\ users'.items = <<>>
       /\ logs' = <<>> /\ expenditure' = <<>> /\ shared_expenditure' = <<>>
       /\ ~IsError(out')]_vars

\* C12 holds of a /clear handled while users is a list (no /include since
\* the chat began or since the last /clear)
C12_ClearResetsList ==
  [][ClearStep /\ users.type = "list" =>
       /\ users'.items = <<>>
       /\ logs' = <<>> /\ expenditure' = <<>> /\ shared_expenditure' = <<>>
       /\ ~IsError(out')]_vars

\* an /include command with these arguments has been handled
IncludeCmdStep(args) ==
  /\ calls' = calls + 1
  /\ self' = include_handler(self, args).self
  /\ out' = include_handler(self, args).out

\* @ followed by word characters only
WellFormedHandle(h) == Len(h) >= 2 /\ h[1] = "@" /\ WordRun(Tail(h)) = Len(h) - 1

WellFormedArgs(args) ==
  Len(args) >= 1 /\ \A i \in DOMAIN args : WellFormedHandle(args[i])

\* C13: an /include with N well-formed handles on an empty ledger leaves
\* exactly the N handles as keys of expenditure, each with 0, and as the known
\* participants; with ill-formed arguments the ledger is unchanged.
C13_IncludeInitialisesHandles ==
  [][\A args \in IncludeArgs :
       IncludeCmdStep(args) =>
         IF WellFormedArgs(args)
         THEN expenditure = <<>> =>
                /\ Keys(expenditure') = Range(args)
                /\ \A i \in DOMAIN expenditure' : expenditure'[i].v = Fin(0)
                /\ Range(users'.items) = Range(args)
         ELSE UNCHANGED <<users, logs, expenditure, shared_expenditure>>]_vars

\* C13, the part that holds: ill-formed arguments are answered with an error
\* and change nothing
C13_IllFormedRejected ==
  [][\A args \in IncludeArgs :
       IncludeCmdStep(args) /\ ~WellFormedArgs(args) =>
         /\ UNCHANGED <<users, logs, expenditure, shared_expenditure>>
         /\ out' = Reply("Error: the format should be /include @name @name @name...")]_vars

\* an /add command has been handled
AddCmdStep(args, date, fs) == calls' = calls + 1 /\ AddStep(args, date, fs)

AddFrozensets(args) ==
  IF Len(args) > 2 THEN frozenset(SubSeq(args, 3, Len(args))) ELSE {<<>>}

\* the command handled last was /clear
LastWasClear ==
  /\ calls > 0
  /\ out \in {Reply("All records have been cleared!"), Raise(NoneVal, "AttributeError")}

\* C14: an /add issued while no participants are known, or right after a
\* /clear, is answered with an error and leaves expenditure,
\* shared_expenditure and logs unchanged.
C14_AddNeedsParticipants ==
  [][\A args \in AddArgs, date \in Times : \A fs \in AddFrozensets(args) :
       AddCmdStep(args, date, fs) /\ (users.items = <<>> \/ LastWasClear) =>
         /\ IsError(out')
         /\ UNCHANGED <<expenditure, shared_expenditure, logs>>]_vars

\* C14, the part that holds: with an empty users the /add is refused
C14_AddRefusedWhenNoUsers ==
  [][\A args \in AddArgs, date \in Times : \A fs \in AddFrozensets(args) :
       AddCmdStep(args, date, fs) /\ users.items = <<>> =>
         /\ out' = Reply("Error: Please use the /include command to add users first!")
         /\ UNCHANGED <<users, expenditure, shared_expenditure, logs>>]_vars

\* C15: add_equal(p, a) sets the entry of p to its previous value (0 when
\* there was none) plus a, also when p is not a known participant, and leaves
\* every other entry, shared_expenditure, users and logs unchanged.
C15_AddEqualAccumulates ==
  [][\A key \in Names, value \in Amounts :
       (/\ calls' = calls + 1
        /\ self' = update_expenditure(self, key, value, NoneVal, <<>>))
       => /\ EqualOf(expenditure', key) = FAdd(EqualOf(expenditure, key), value)
          /\ Keys(expenditure') = Keys(expenditure) \cup {key}
          /\ Len(expenditure') = Cardinality(Keys(expenditure'))
          /\ \A p \in Keys(expenditure) \ {key} :
               EqualOf(expenditure', p) = EqualOf(expenditure, p)
          /\ UNCHANGED <<shared_expenditure, users, logs>>]_vars

\* a payer outside the known participants has an entry that two calls
\* accumulated
C15_Witness ==
  /\ users.items # <<>>
  /\ \E p \in Keys(expenditure) \ KnownParticipants :
       EqualOf(expenditure, p) = Fin(2 * Unit)

\* C16: with an empty expenditure avg_expenditure() is 0, and with no equal
\* and no shared contribution resolve_expenses() returns the empty list.
C16_EmptyLedgerResolves ==
  /\ expenditure = <<>> => avg_expenditure(self) = Fin(0)
  /\ (expenditure = <<>> /\ shared_expenditure = <<>>) =>
       /\ Transactions = <<>>
       /\ resolve_expenses(self).self = self

\* resolve() has returned the empty list on a ledger emptied by clear()
C16_Witness ==
  /\ calls >= 2
  /\ expenditure = <<>> /\ shared_expenditure = <<>> /\ users.items = <<>>
  /\ out = Some(<<>>)

(* ------------------- several chats, ChatData by reference --------------- *)

\* the result of a handler on the chat of ref: the objects of the ChatData are
\* mutated in place; when rebind, self.users is assigned a new object (line 28)
\* and the object it held is left as it was
OnHeap(h, ref, r, rebind) ==
  IF rebind
  THEN [heap |-> Append(StoreInPlace(h, ref,
                          [users |-> h[ref.users], logs |-> r.self.logs,
                           expenditure |-> r.self.expenditure,
                           shared_expenditure |-> r.self.shared_expenditure]),
                        r.self.users),
        ref |-> [users |-> Len(h) + 1, logs |-> ref.logs, expenditure |-> ref.expenditure,
                 shared_expenditure |-> ref.shared_expenditure],
        out |-> r.out]
  ELSE [heap |-> StoreInPlace(h, ref, r.self), ref |-> ref, out |-> r.out]

\* the chat c has handled a command with this result
Handled(c, r) ==
  /\ heap' = r.heap
  /\ chat_data' = [d \in DOMAIN chat_data |-> IF d = c THEN r.ref ELSE chat_data[d]]
  /\ out' = r.out
  /\ UNCHANGED <<users, logs, expenditure, shared_expenditure>>

ChatInclude(c) ==
  \E args \in IncludeArgs :
    /\ Command
    /\ Handled(c, OnHeap(heap, chat_data[c],
                         include_handler(Deref(heap, chat_data[c]), args),
                         handle_regex_fullmatch(Len(args), Join(args))))

ChatAdd(c) ==
  \E args \in AddArgs, date \in Times :
    \E fs \in (IF Len(args) > 2 THEN frozenset(SubSeq(args, 3, Len(args))) ELSE {<<>>}) :
      /\ Command
      /\ Handled(c, OnHeap(heap, chat_data[c],
                           add_handler(Deref(heap, chat_data[c]), args, date, fs), FALSE))

ChatClear(c) ==
  /\ Command
  /\ Handled(c, OnHeap(heap, chat_data[c], clear_handler(Deref(heap, chat_data[c])), FALSE))

ChatResolve(c) ==
  /\ Handled(c, OnHeap(heap, chat_data[c], resolve_handler(Deref(heap, chat_data[c])), FALSE))
  /\ UNCHANGED calls

ChatsNext == \E c \in Chats : ChatInclude(c) \/ ChatAdd(c) \/ ChatClear(c) \/ ChatResolve(c)

ChatsSpec == Init /\ [][ChatsNext]_vars

\* the ChatData of chat c, by value
View(c) == Deref(heap, chat_data[c])

\* the chat c has handled a command
ChatStep(c) == ChatInclude(c) \/ ChatAdd(c) \/ ChatClear(c) \/ ChatResolve(c)

\* C17: a command handled by one chat leaves users, expenditure,
\* shared_expenditure and logs of every other chat as they were.
C17_SessionIsolation ==
  [][\A c \in Chats : ChatStep(c) => \A d \in Chats \ {c} : View(d)' = View(d)]_vars

\* the two chats hold different ledgers: one with a contribution and its log
\* line, the other with participants and no log line
C17_Witness ==
  \E c, d \in Chats :
    /\ c # d
    /\ View(c).logs # <<>> /\ View(c).users.items # <<>>
    /\ View(d).users.items # <<>> /\ View(d).logs = <<>>
    /\ View(c).users # View(d).users

\* C18: every transaction resolve() returns has an amount strictly greater
\* than 0 and a debtor different from its creditor.
C18_TransactionsWellFormed ==
  LET txs == Transactions
  IN \A n \in DOMAIN txs : FLt(Fin(0), txs[n][3]) /\ txs[n][1] # txs[n][2]

\* resolve() has returned transactions on a ledger where a creditor is paid
\* by a debtor and a third participant, whose balance is 0, is left out
C18_Witness ==
  LET txs == Transactions
  IN /\ out = Some(txs)
     /\ Len(txs) >= 1
     /\ \E p \in Keys(Balances) :
          /\ BalanceOf(p) = Fin(0)
          /\ \A n \in DOMAIN txs : p \notin {txs[n][1], txs[n][2]}

\* position of p in the mapping bal
Pos(bal, p) == IndexOf(bal, p, FALSE)

\* the transactions are grouped by debtor, debtors in the order of the balance
\* mapping bal, and within one debtor creditors in that order
InBalanceOrder(txs, bal) ==
  \A m, n \in DOMAIN txs :
    m < n => \/ Pos(bal, txs[m][1]) < Pos(bal, txs[n][1])
             \/ txs[m][1] = txs[n][1] /\ Pos(bal, txs[m][2]) < Pos(bal, txs[n][2])

\* the payer and the sharers of each shared entry, in the order the shared
\* loop meets them
RECURSIVE EntryOrder(_, _)
EntryOrder(payer, d) ==
  IF d = <<>> THEN <<>> ELSE <<payer>> \o d[1].k \o EntryOrder(payer, Tail(d))

RECURSIVE SharedOrder(_)
SharedOrder(sh) ==
  IF sh = <<>> THEN <<>> ELSE EntryOrder(sh[1].k, sh[1].v) \o SharedOrder(Tail(sh))

\* the elements of seq that are not in seen, each at its first occurrence
RECURSIVE FirstSeen(_, _)
FirstSeen(seq, seen) ==
  IF seq = <<>> THEN <<>>
  ELSE IF seq[1] \in seen THEN FirstSeen(Tail(seq), seen)
  ELSE <<seq[1]>> \o FirstSeen(Tail(seq), seen \cup {seq[1]})

\* the balance mapping holds the expenditure keys in insertion order, then the
\* participants first introduced by shared contributions, and the transactions
\* follow that order; A, B, C included with add_equal(A, x) gives
\* [(B, A, x/3), (C, A, x/3)]
C19_OrderFollowsBalances ==
  LET bal == Balances
      txs == settle(bal).transactions
  IN /\ [i \in DOMAIN bal |-> bal[i].k] =
          [i \in DOMAIN expenditure |-> expenditure[i].k]
            \o FirstSeen(SharedOrder(shared_expenditure), Keys(expenditure))
     /\ txs = Transactions
     /\ InBalanceOrder(txs, bal)
     /\ (/\ shared_expenditure = <<>>
         /\ expenditure = <<[k |-> "A", v |-> Fin(Unit)], [k |-> "B", v |-> Fin(0)],
                            [k |-> "C", v |-> Fin(0)]>>)
        => txs = <<<<"B", "A", Fin(Unit \div 3)>>, <<"C", "A", Fin(Unit \div 3)>>>>

\* the transactions after an add_shared do not depend on the order in which
\* the set of its sharers iterates
ResolveSameForEveryIteration ==
  calls < MaxCalls =>
    \A key \in Payers, value \in Amounts :
      \A others \in OthersLists(key) : \A fs1, fs2 \in frozenset(others) :
        resolve_expenses(update_expenditure(self, key, value, Some(others), fs1)).ret
          = resolve_expenses(update_expenditure(self, key, value, Some(others), fs2)).ret

\* C19: the order of the transactions is deterministic and follows insertion
\* order: grouped by debtor, debtors in the order they entered the balance
\* mapping, and within one debtor creditors in that order.
C19_DeterministicOrder == C19_OrderFollowsBalances /\ ResolveSameForEveryIteration

\* the entries of expenditure that differ between s and t
EqualChanged(s, t) ==
  {p \in Keys(s.expenditure) \cup Keys(t.expenditure) :
     \/ p \notin Keys(s.expenditure) \/ p \notin Keys(t.expenditure)
     \/ EqualOf(s.expenditure, p) # EqualOf(t.expenditure, p)}

\* the entries of shared_expenditure that differ between s and t
SharedChanged(s, t) ==
  {e \in SharedEntries(s) \cup SharedEntries(t) :
     \/ e \notin SharedEntries(s) \/ e \notin SharedEntries(t)
     \/ SharedTotal(s, e[1], e[2]) # SharedTotal(t, e[1], e[2])}

\* an /add that ends in an error leaves expenditure, shared_expenditure and
\* logs unchanged; one that replies Added! appends one log line and changes
\* no contribution entry but the one it adds to
AddIsAtomic ==
  \A args \in AddArgs, date \in Times : \A fs \in AddFrozensets(args) :
    AddCmdStep(args, date, fs) =>
      IF out' = Reply("Added!")
      THEN /\ Len(logs') = Len(logs) + 1
           /\ SubSeq(logs', 1, Len(logs)) = logs
           /\ Cardinality(EqualChanged(self, self')) + Cardinality(SharedChanged(self, self')) <= 1
           /\ users' = users
      ELSE /\ IsError(out')
           /\ UNCHANGED <<users, expenditure, shared_expenditure, logs>>

C20_AddAtomic == [][AddIsAtomic]_vars

\* the log lines are those of the /add commands that replied Added! since
\* the last /clear: a /clear empties the logs, an /include leaves them
LogsCountAdds ==
  /\ ClearStep => logs' = <<>>
  /\ \A args \in IncludeArgs : IncludeCmdStep(args) => logs' = logs

\* C20: an /add that ends in an error changes neither the contributions nor
\* the logs, one that replies Added! changes one contribution entry and
\* appends one log line, so that the number of log lines is the number of
\* successful /add commands since the last /clear.
C20_AddAtomicAndLogged == [][AddIsAtomic /\ LogsCountAdds]_vars

====
